---------------------------- MODULE Spec2Model ----------------------------
(***************************************************************************)
(* A model of RMS/Routines/Image.py: the image correction routines         *)
(* (brightness/contrast, levels, flat field, deinterlacing).               *)
(*                                                                         *)
(* ndarray objects live in a heap `mem` and are named by references        *)
(* (indices into mem), so that "a new array" and "the caller's array" are  *)
(* different things.  An array is a record [dtype, rows]; rows is a        *)
(* sequence of rows, each a sequence of samples.  A sample of an integer   *)
(* array is an integer; a sample of a float64 array is a pair <<n, d>>     *)
(* standing for n/d (d > 0), <<0, 0>> for NaN, <<1, 0>> and <<-1, 0>> for  *)
(* the infinities.  Float arithmetic is modelled exactly (as rationals).   *)
(***************************************************************************)
EXTENDS Integers, Sequences, FiniteSets

VARIABLES
    mem,                 \* heap of ndarray objects; a reference is an index
    pc,                  \* position of the running call
    fn,                  \* the function the caller invoked
    args,                \* its scalar arguments
    fcast,               \* what this build does with an out-of-range float -> int cast
    img,                 \* local name img / img_array (rebound by the functions)
    deinterlaced_image,  \* local of deinterlaceOdd / deinterlaceEven
    img_odd_d,           \* local of deinterlaceBlend
    img_even,            \* local of deinterlaceBlend
    new_arr,             \* local of blendLighten
    flat_struct,         \* the FlatStruct built by loadFlat
    img_type,            \* local img_type / input_type: the storage type to keep
    ret                  \* the returned reference (0 while running)

vars == <<mem, pc, fn, args, fcast, img, deinterlaced_image, img_odd_d,
          img_even, new_arr, flat_struct, img_type, ret>>

----------------------------------------------------------------------------
(* Bounds of the model *)

\* the most rows of an image given to the deinterlacing functions
MaxH == 4
\* the most samples of an image given to the other functions
MaxPix == 3

----------------------------------------------------------------------------
(* Storage types *)

TypeMin(dt) ==
    CASE dt = "uint8" -> 0
      [] dt = "int8" -> -128
      [] dt = "uint16" -> 0
      [] dt = "int16" -> -32768
      [] dt = "int32" -> -2147483647 - 1

TypeMax(dt) ==
    CASE dt = "uint8" -> 255
      [] dt = "int8" -> 127
      [] dt = "uint16" -> 65535
      [] dt = "int16" -> 32767
      [] dt = "int32" -> 2147483647

InRange(v, dt) == TypeMin(dt) <= v /\ v <= TypeMax(dt)

\* Integer conversion to a narrower type keeps the low bits (two's complement).
\* No value of the model leaves the int32 range.
Wrap(v, dt) ==
    IF dt = "int32" THEN v
    ELSE LET span == TypeMax(dt) - TypeMin(dt) + 1
         IN  ((v - TypeMin(dt)) % span) + TypeMin(dt)

Saturate(v, dt) ==
    IF v < TypeMin(dt) THEN TypeMin(dt)
    ELSE IF v > TypeMax(dt) THEN TypeMax(dt) ELSE v

\* numpy's result type of a binary operation on two integer arrays
Promote(a, b) ==
    IF a = b THEN a
    ELSE IF {a, b} = {"int16", "uint8"} THEN "int16"
    ELSE IF {a, b} = {"int16", "int8"} THEN "int16"
    ELSE "int32"

----------------------------------------------------------------------------
(* Arrays *)

Height(a) == Len(a.rows)
Width(a) == Len(a.rows[1])
Shape(a) == <<Height(a), Width(a)>>

Max(x, y) == IF x >= y THEN x ELSE y

\* a new array object on the heap; its reference is Len(mem) + 1
Alloc(a) == Append(mem, a)
NewRef == Len(mem) + 1

\* np.copy: a new object with the same storage type and samples
NpCopy(a) == [dtype |-> a.dtype, rows |-> a.rows]

\* integer array -> integer array conversion (astype)
AsTypeInt(a, dt) ==
    [dtype |-> dt,
     rows |-> [r \in 1..Height(a) |->
                 [c \in 1..Width(a) |-> Wrap(a.rows[r][c], dt)]]]

\* elementwise difference of two integer arrays of one shape
SubArr(a, b) ==
    LET dt == Promote(a.dtype, b.dtype)
    IN  [dtype |-> dt,
         rows |-> [r \in 1..Height(a) |->
                     [c \in 1..Width(a) |->
                        Wrap(a.rows[r][c] - b.rows[r][c], dt)]]]

\* temp[temp > 0] = 0
ZeroPositive(a) ==
    [dtype |-> a.dtype,
     rows |-> [r \in 1..Height(a) |->
                 [c \in 1..Width(a) |->
                    IF a.rows[r][c] > 0 THEN 0 ELSE a.rows[r][c]]]]

----------------------------------------------------------------------------
(* Row slices.  Rows are numbered from 1 here, from 0 in the source: the   *)
(* source's odd rows 1, 3, ... are the rows 2, 4, ... of the model.        *)

\* [1::2]: source rows 1, 3, 5, ...
SliceOdd(h) == [k \in 1..(h \div 2) |-> 2 * k]

\* [:-1:2]: source rows 0, 2, 4, ... below the last row
SliceEvenButLast(h) == [k \in 1..(h \div 2) |-> 2 * k - 1]

\* [:-1]: every row but the last
SliceButLast(h) == [k \in 1..(h - 1) |-> k]

\* [1:]: every row but the first
SliceButFirst(h) == [k \in 1..(h - 1) |-> k + 1]

\* rows[dst] = rows[src] on one buffer.  numpy evaluates the right-hand side
\* as if it were copied before the first write, so every read sees the
\* buffer as it was before the statement.
AssignRows(rows, dst, src) ==
    [r \in 1..Len(rows) |->
        IF \E k \in 1..Len(dst) : dst[k] = r
        THEN rows[src[CHOOSE k \in 1..Len(dst) : dst[k] = r]]
        ELSE rows[r]]

ZeroRow(w) == [c \in 1..w |-> 0]

----------------------------------------------------------------------------
(* deinterlaceOdd *)

\* the working buffer bound to the caller's array, with no copy
Odd_alias ==
    /\ pc = "odd_copy"
    /\ deinterlaced_image' = img
    /\ pc' = "odd_dup"
    /\ UNCHANGED <<mem, fn, args, fcast, img, img_odd_d, img_even, new_arr,
                   flat_struct, img_type, ret>>

\* deinterlaced_image = np.copy(img)
Odd_copy ==
    /\ pc = "odd_copy"
    /\ mem' = Alloc(NpCopy(mem[img]))
    /\ deinterlaced_image' = NewRef
    /\ pc' = "odd_dup"
    /\ UNCHANGED <<fn, args, fcast, img, img_odd_d, img_even, new_arr,
                   flat_struct, img_type, ret>>

\* deinterlaced_image[1::2, :] = deinterlaced_image[:-1:2, :]
DupOdd(rows) == AssignRows(rows, SliceOdd(Len(rows)), SliceEvenButLast(Len(rows)))

Odd_dup ==
    /\ pc = "odd_dup"
    /\ mem' = [mem EXCEPT ![deinterlaced_image].rows = DupOdd(@)]
    /\ pc' = "odd_shift"
    /\ UNCHANGED <<fn, args, fcast, img, deinterlaced_image, img_odd_d,
                   img_even, new_arr, flat_struct, img_type, ret>>

\* A row-by-row copy done in place, last pair first: every read of row k + 1
\* comes after row k + 1 was itself overwritten.
RECURSIVE CopyRowsInPlace(_, _, _, _)
CopyRowsInPlace(rows, dst, src, k) ==
    IF k = 0 THEN rows
    ELSE CopyRowsInPlace([rows EXCEPT ![dst[k]] = rows[src[k]]], dst, src, k - 1)

ShiftUpBackward(rows) ==
    CopyRowsInPlace(rows, SliceButLast(Len(rows)), SliceButFirst(Len(rows)),
                    Len(rows) - 1)

\* deinterlaced_image[:-1, :] = deinterlaced_image[1:, :]
ShiftUp(rows) == AssignRows(rows, SliceButLast(Len(rows)), SliceButFirst(Len(rows)))

Odd_shift ==
    /\ pc = "odd_shift"
    /\ mem' = [mem EXCEPT ![deinterlaced_image].rows = ShiftUp(@)]
    /\ pc' = "odd_zero"
    /\ UNCHANGED <<fn, args, fcast, img, deinterlaced_image, img_odd_d,
                   img_even, new_arr, flat_struct, img_type, ret>>

\* deinterlaced_image[-1, :] = 0
ZeroLast(rows) == [rows EXCEPT ![Len(rows)] = ZeroRow(Len(@))]

Odd_zero ==
    /\ pc = "odd_zero"
    /\ mem' = [mem EXCEPT ![deinterlaced_image].rows = ZeroLast(@)]
    /\ pc' = "odd_ret"
    /\ UNCHANGED <<fn, args, fcast, img, deinterlaced_image, img_odd_d,
                   img_even, new_arr, flat_struct, img_type, ret>>

\* return deinterlaced_image; in deinterlaceBlend: img_odd_d = deinterlaceOdd(img)
Odd_ret ==
    /\ pc = "odd_ret"
    /\ IF fn = "deinterlaceBlend"
       THEN /\ img_odd_d' = deinterlaced_image
            /\ pc' = "even_copy"
            /\ ret' = ret
       ELSE /\ ret' = deinterlaced_image
            /\ pc' = "done"
            /\ img_odd_d' = img_odd_d
    /\ UNCHANGED <<mem, fn, args, fcast, img, deinterlaced_image, img_even,
                   new_arr, flat_struct, img_type>>

----------------------------------------------------------------------------
(* deinterlaceEven *)

\* deinterlaced_image = np.copy(img)
Even_copy ==
    /\ pc = "even_copy"
    /\ mem' = Alloc(NpCopy(mem[img]))
    /\ deinterlaced_image' = NewRef
    /\ pc' = "even_dup"
    /\ UNCHANGED <<fn, args, fcast, img, img_odd_d, img_even, new_arr,
                   flat_struct, img_type, ret>>

\* the two slices exchanged: the odd rows take the even rows' values
DupEvenExchanged(rows) ==
    AssignRows(rows, SliceOdd(Len(rows)), SliceEvenButLast(Len(rows)))

\* deinterlaced_image[:-1:2, :] = deinterlaced_image[1::2, :]
DupEven(rows) == AssignRows(rows, SliceEvenButLast(Len(rows)), SliceOdd(Len(rows)))

Even_dup ==
    /\ pc = "even_dup"
    /\ mem' = [mem EXCEPT ![deinterlaced_image].rows = DupEven(@)]
    /\ pc' = "even_ret"
    /\ UNCHANGED <<fn, args, fcast, img, deinterlaced_image, img_odd_d,
                   img_even, new_arr, flat_struct, img_type, ret>>

\* return deinterlaced_image; in deinterlaceBlend: img_even = deinterlaceEven(img)
Even_ret ==
    /\ pc = "even_ret"
    /\ IF fn = "deinterlaceBlend"
       THEN /\ img_even' = deinterlaced_image
            /\ pc' = "lighten"
            /\ ret' = ret
       ELSE /\ ret' = deinterlaced_image
            /\ pc' = "done"
            /\ img_even' = img_even
    /\ UNCHANGED <<mem, fn, args, fcast, img, deinterlaced_image, img_odd_d,
                   new_arr, flat_struct, img_type>>

----------------------------------------------------------------------------
(* blendLighten(arr1, arr2), called with (img_odd_d, img_even) *)

\* arr1 = arr1.astype(np.int16); temp = arr1 - arr2; temp[temp > 0] = 0;
\* new_arr = arr1 - temp
LightenDiff(a1, a2) ==
    LET arr1 == AsTypeInt(a1, "int16")
        temp == ZeroPositive(SubArr(arr1, a2))
    IN  SubArr(arr1, temp)

Lighten_compute ==
    /\ pc = "lighten"
    /\ mem' = Alloc(LightenDiff(mem[img_odd_d], mem[img_even]))
    /\ new_arr' = NewRef
    /\ pc' = "lighten_cast"
    /\ UNCHANGED <<fn, args, fcast, img, deinterlaced_image, img_odd_d,
                   img_even, flat_struct, img_type, ret>>

\* new_arr = new_arr.astype(np.uint8)
LightenCast(a) == AsTypeInt(a, "uint8")

Lighten_cast ==
    /\ pc = "lighten_cast"
    /\ mem' = Alloc(LightenCast(mem[new_arr]))
    /\ new_arr' = NewRef
    /\ pc' = "blend_ret"
    /\ UNCHANGED <<fn, args, fcast, img, deinterlaced_image, img_odd_d,
                   img_even, flat_struct, img_type, ret>>

\* proc_img = blendLighten(img_odd_d, img_even); return proc_img
Blend_ret ==
    /\ pc = "blend_ret"
    /\ ret' = new_arr
    /\ pc' = "done"
    /\ UNCHANGED <<mem, fn, args, fcast, img, deinterlaced_image, img_odd_d,
                   img_even, new_arr, flat_struct, img_type>>

----------------------------------------------------------------------------
(* The deinterlacing specification: the caller holds one image of unsigned *)
(* samples and calls one of the three deinterlacing functions on it.       *)

\* an optional scalar argument: None, or Some(v) whose value is Val(o)
None == <<>>
Some(v) == <<v>>
Val(o) == o[1]

NoArgs == [brightness |-> None, contrast |-> None, minv |-> None,
           gamma |-> None, maxv |-> None, nbits |-> None]

NoFlat == [flat_img |-> 0, flat_avg |-> <<0, 0>>]

\* sample values drawn for an image of each storage type
Samples(dt) ==
    CASE dt = "uint8" -> {0, 200}
      [] dt = "uint16" -> {0, 300}
      [] dt = "int8" -> {-100, 100}

Images(dt, h, w) ==
    {[dtype |-> dt, rows |-> rs] : rs \in [1..h -> [1..w -> Samples(dt)]]}

\* the widths of the images given to the deinterlacing functions
Widths == {1, 2}

DeintImages ==
    UNION {Images(dt, h, w) : dt \in {"uint8", "uint16"}, h \in 1..MaxH, w \in Widths}

InitDeint ==
    /\ \E a \in DeintImages : mem = <<a>>
    /\ fn \in {"deinterlaceOdd", "deinterlaceEven", "deinterlaceBlend"}
    /\ pc = IF fn = "deinterlaceEven" THEN "even_copy" ELSE "odd_copy"
    /\ args = NoArgs
    /\ fcast = "wrap"
    /\ img = 1
    /\ deinterlaced_image = 0
    /\ img_odd_d = 0
    /\ img_even = 0
    /\ new_arr = 0
    /\ flat_struct = NoFlat
    /\ img_type = "None"
    /\ ret = 0

NextDeint ==
    \/ Odd_copy
    \/ Odd_dup
    \/ Odd_shift
    \/ Odd_zero
    \/ Odd_ret
    \/ Even_copy
    \/ Even_dup
    \/ Even_ret
    \/ Lighten_compute
    \/ Lighten_cast
    \/ Blend_ret

SpecDeint == InitDeint /\ [][NextDeint]_vars

\* the caller's image: the first object of the heap, never rebound
Caller == Head(mem)

----------------------------------------------------------------------------
(* float64 samples: <<n, d>> is n/d (d > 0); <<0, 0>> is NaN; <<1, 0>> and  *)
(* <<-1, 0>> are +inf and -inf.                                            *)

IsFinite(p) == p[2] > 0

Sign(n) == IF n > 0 THEN 1 ELSE IF n < 0 THEN -1 ELSE 0

QLess(p, q) == p[1] * q[2] < q[1] * p[2]

\* the product and the quotient of two finite values
QMul(p, q) == <<p[1] * q[1], p[2] * q[2]>>

QDiv(p, q) ==
    IF q[1] = 0 THEN <<Sign(p[1]), 0>>
    ELSE IF q[1] > 0 THEN <<p[1] * q[2], p[2] * q[1]>>
    ELSE <<-(p[1] * q[2]), -(p[2] * q[1])>>

\* np.clip(x, lo, hi) of one sample: NaN stays NaN, an infinity is clipped
QClip(p, lo, hi) ==
    IF p[1] < lo * p[2] THEN <<lo, 1>>
    ELSE IF p[1] > hi * p[2] THEN <<hi, 1>>
    ELSE p

\* the integer part, rounded towards zero
Trunc(p) ==
    IF p[1] >= 0 THEN p[1] \div p[2] ELSE -((-p[1]) \div p[2])

\* float64 -> integer conversion of one sample (astype).  A value the target
\* type holds is truncated.  Converting any other value is undefined in C:
\* a build keeps the low bits of the integer part (NaN and the infinities
\* giving 0) or saturates, as fcast says.
CastFloat(p, dt) ==
    IF IsFinite(p) /\ InRange(Trunc(p), dt) THEN Trunc(p)
    ELSE IF fcast = "wrap"
         THEN (IF IsFinite(p) THEN Wrap(Trunc(p), dt) ELSE 0)
         ELSE (IF IsFinite(p) THEN Saturate(Trunc(p), dt)
               ELSE IF p[1] > 0 THEN TypeMax(dt)
               ELSE IF p[1] < 0 THEN TypeMin(dt) ELSE 0)

\* integer array -> float64 array
AsTypeFloat(a) ==
    [dtype |-> "float64",
     rows |-> [r \in 1..Height(a) |->
                 [c \in 1..Width(a) |-> <<a.rows[r][c], 1>>]]]

\* float64 array -> integer array
AsTypeFromFloat(a, dt) ==
    [dtype |-> dt,
     rows |-> [r \in 1..Height(a) |->
                 [c \in 1..Width(a) |-> CastFloat(a.rows[r][c], dt)]]]

ClipArr(a, lo, hi) ==
    [dtype |-> a.dtype,
     rows |-> [r \in 1..Height(a) |->
                 [c \in 1..Width(a) |-> QClip(a.rows[r][c], lo, hi)]]]

----------------------------------------------------------------------------
(* applyBrightnessAndContrast(img, brightness, contrast) *)

\* f = (259.0*(contrast + 255.0))/(255*(259 - contrast))
ContrastFactor(contrast) == <<259 * (contrast + 255), 255 * (259 - contrast)>>

\* the mid-grey offset added back one level short
BCValueShort(x, brightness, contrast) ==
    LET f == ContrastFactor(contrast)
    IN  <<f[1] * (x + brightness - 128) + 127 * f[2], f[2]>>

\* img + brightness, then f*(img - 128.0) + 128.0, of one sample
BCValue(x, brightness, contrast) ==
    LET f == ContrastFactor(contrast)
    IN  <<f[1] * (x + brightness - 128) + 128 * f[2], f[2]>>

\* img_type = img.dtype; img = img.astype(np.float); img = img + brightness;
\* img = f*(img - 128.0) + 128.0; img = np.clip(img, 0, 255)
BCCompute(a, brightness, contrast) ==
    ClipArr([dtype |-> "float64",
             rows |-> [r \in 1..Height(a) |->
                         [c \in 1..Width(a) |->
                            BCValue(a.rows[r][c], brightness, contrast)]]],
            0, 255)

BC_compute ==
    /\ pc = "bc_compute"
    /\ img_type' = mem[img].dtype
    /\ mem' = Alloc(BCCompute(mem[img], Val(args.brightness),
                             Val(args.contrast)))
    /\ img' = NewRef
    /\ pc' = "bc_cast"
    /\ UNCHANGED <<fn, args, fcast, deinterlaced_image, img_odd_d, img_even,
                   new_arr, flat_struct, ret>>

\* img = img.astype(img_type); return img
BC_cast ==
    /\ pc = "bc_cast"
    /\ mem' = Alloc(AsTypeFromFloat(mem[img], img_type))
    /\ img' = NewRef
    /\ ret' = NewRef
    /\ pc' = "done"
    /\ UNCHANGED <<fn, args, fcast, deinterlaced_image, img_odd_d, img_even,
                   new_arr, flat_struct, img_type>>

----------------------------------------------------------------------------
(* adjustLevels(img_array, minv, gamma, maxv, nbits); img stands for the   *)
(* local img_array.  gamma is <<1, k>> for 1/k, so that invgamma = k.      *)

RECURSIVE Power(_, _)
Power(b, e) == IF e = 0 THEN 1 ELSE b * Power(b, e - 1)

\* max_lvl = 2**nbits - 1.0
MaxLvl(nbits) == Power(2, nbits) - 1

\* One sample through lines 105-119: normalised by max_lvl, minv subtracted,
\* divided by the interval, raised to invgamma, multiplied by max_lvl.
LevelsValue(x, minv, gamma, maxv, nbits) ==
    LET invgamma == gamma[2] \div gamma[1]
        base == QDiv(<<x - minv, 1>>, <<maxv - minv, 1>>)
    IN  <<Power(base[1], invgamma) * MaxLvl(nbits), Power(base[2], invgamma)>>

\* lines 105-122, ending with np.clip(img_array, 0, max_lvl)
LevelsCompute(a, minv, gamma, maxv, nbits) ==
    ClipArr([dtype |-> "float64",
             rows |-> [r \in 1..Height(a) |->
                         [c \in 1..Width(a) |->
                            LevelsValue(a.rows[r][c], minv, gamma, maxv, nbits)]]],
            0, MaxLvl(nbits))

\* the sentinel test with its last comparison inverted
AllUnsetInverted(minv, gamma, maxv) == minv = None /\ gamma = None /\ maxv # None

\* the sentinel test of line 102
AllUnset(minv, gamma, maxv) == minv = None /\ gamma = None /\ maxv = None

\* arithmetic on None raises TypeError (lines 105, 106, 108)
AnyUnset(minv, gamma, maxv) == minv = None \/ gamma = None \/ maxv = None

\* lines 98-122
Levels_entry ==
    /\ pc = "levels_entry"
    /\ IF AllUnset(args.minv, args.gamma, args.maxv)
       THEN /\ ret' = img
            /\ pc' = "done"
            /\ UNCHANGED <<mem, img>>
       ELSE IF AnyUnset(args.minv, args.gamma, args.maxv)
       THEN /\ pc' = "raised"
            /\ UNCHANGED <<mem, img, ret>>
       ELSE /\ mem' = Alloc(LevelsCompute(mem[img], Val(args.minv),
                                          Val(args.gamma), Val(args.maxv),
                                          Val(args.nbits)))
            /\ img' = NewRef
            /\ pc' = "levels_cast"
            /\ ret' = ret
    /\ UNCHANGED <<fn, args, fcast, deinterlaced_image, img_odd_d, img_even,
                   new_arr, flat_struct, img_type>>

\* img_array = img_array.astype(np.uint8); return img_array
LevelsCast(a) == AsTypeFromFloat(a, "uint8")

Levels_cast ==
    /\ pc = "levels_cast"
    /\ mem' = Alloc(LevelsCast(mem[img]))
    /\ img' = NewRef
    /\ ret' = NewRef
    /\ pc' = "done"
    /\ UNCHANGED <<fn, args, fcast, deinterlaced_image, img_odd_d, img_even,
                   new_arr, flat_struct, img_type>>

----------------------------------------------------------------------------
(* The tone specification: the caller holds one integer image and calls    *)
(* adjustLevels or applyBrightnessAndContrast on it.                       *)

Shapes == {s \in (1..MaxPix) \X (1..MaxPix) : s[1] * s[2] <= MaxPix}

SmallImages(dts) ==
    UNION {Images(dt, s[1], s[2]) : dt \in dts, s \in Shapes}

LevelArgs ==
    {[brightness |-> None, contrast |-> None, minv |-> lo, gamma |-> g,
      maxv |-> hi, nbits |-> Some(n)] :
        lo \in {None, Some(0), Some(100)},
        g \in {None, Some(<<1, 1>>), Some(<<1, 2>>)},
        hi \in {None, Some(240), Some(1000)},
        n \in {8, 10}}

BCArgs ==
    {[brightness |-> Some(b), contrast |-> Some(c), minv |-> None,
      gamma |-> None, maxv |-> None, nbits |-> None] :
        b \in {-255, 0, 50}, c \in {-255, 0, 100}}

InitTone ==
    /\ \E a \in SmallImages({"uint8", "int8", "uint16"}) : mem = <<a>>
    /\ fn \in {"adjustLevels", "applyBrightnessAndContrast"}
    /\ args \in IF fn = "adjustLevels" THEN LevelArgs ELSE BCArgs
    /\ pc = IF fn = "adjustLevels" THEN "levels_entry" ELSE "bc_compute"
    /\ fcast \in {"wrap", "saturate"}
    /\ img = 1
    /\ deinterlaced_image = 0
    /\ img_odd_d = 0
    /\ img_even = 0
    /\ new_arr = 0
    /\ flat_struct = NoFlat
    /\ img_type = "None"
    /\ ret = 0

NextTone ==
    \/ BC_compute
    \/ BC_cast
    \/ Levels_entry
    \/ Levels_cast

SpecTone == InitTone /\ [][NextTone]_vars

----------------------------------------------------------------------------
(* loadFlat: the decoded file is the array flat_file of the heap *)

\* the samples of an array, row after row
RECURSIVE Concat(_)
Concat(rows) == IF rows = <<>> THEN <<>> ELSE Head(rows) \o Concat(Tail(rows))

Flatten(a) == Concat(a.rows)

\* a sequence of float samples in ascending order (np.median sorts a copy)
RECURSIVE SortQ(_)
SortQ(s) ==
    IF s = <<>> THEN <<>>
    ELSE LET i == CHOOSE i \in 1..Len(s) : \A j \in 1..Len(s) : ~QLess(s[j], s[i])
         IN  <<s[i]>> \o SortQ([k \in 1..(Len(s) - 1) |-> IF k < i THEN s[k] ELSE s[k + 1]])

\* the upper of the middle two taken for an even count, with no averaging
MedianUpper(a) ==
    LET s == SortQ(Flatten(a))
    IN  s[Len(s) \div 2 + 1]

\* np.median of all the samples: the middle one, or the mean of the middle two
Median(a) ==
    LET s == SortQ(Flatten(a))
        n == Len(s)
    IN  IF n % 2 = 1 THEN s[(n + 1) \div 2]
        ELSE LET lo == s[n \div 2]
                 hi == s[n \div 2 + 1]
             IN  <<lo[1] * hi[2] + hi[1] * lo[2], 2 * lo[2] * hi[2]>>

\* flat_avg/2
Half(p) == <<p[1], 2 * p[2]>>

\* flat_img[flat_img < flat_avg/2] = flat_avg
SubstituteLow(a, flat_avg) ==
    [dtype |-> a.dtype,
     rows |-> [r \in 1..Height(a) |->
                 [c \in 1..Width(a) |->
                    IF QLess(a.rows[r][c], Half(flat_avg)) THEN flat_avg
                    ELSE a.rows[r][c]]]]

\* the reference frame scipy.misc.imread returns: the second object of the heap
flat_file == mem[2]

\* lines 159-173
Load_flat ==
    /\ pc = "load_flat"
    /\ LET flat_img == AsTypeFloat(flat_file)
           flat_avg == Median(flat_img)
       IN  /\ mem' = Alloc(SubstituteLow(flat_img, flat_avg))
           /\ flat_struct' = [flat_img |-> NewRef, flat_avg |-> flat_avg]
    /\ pc' = "apply_flat"
    /\ UNCHANGED <<fn, args, fcast, img, deinterlaced_image, img_odd_d,
                   img_even, new_arr, img_type, ret>>

----------------------------------------------------------------------------
(* applyFlat(img, flat_struct) *)

\* flat_struct.flat_avg*img.astype(np.float64)/flat_struct.flat_img, then
\* np.clip(img, dtype_info.min, dtype_info.max)
FlatCompute(a, flat_avg, flat_img) ==
    ClipArr([dtype |-> "float64",
             rows |-> [r \in 1..Height(a) |->
                         [c \in 1..Width(a) |->
                            QDiv(QMul(flat_avg, <<a.rows[r][c], 1>>),
                                 flat_img.rows[r][c])]]],
            TypeMin(a.dtype), TypeMax(a.dtype))

\* the test of line 193
ShapeDiffers(a, b) == Shape(a) # Shape(b)

\* lines 192-203
Apply_entry ==
    /\ pc = "apply_flat"
    /\ IF ShapeDiffers(mem[img], mem[flat_struct.flat_img])
       THEN /\ ret' = img
            /\ pc' = "done"
            /\ UNCHANGED <<mem, img, img_type>>
       ELSE /\ img_type' = mem[img].dtype
            /\ mem' = Alloc(FlatCompute(mem[img], flat_struct.flat_avg,
                                        mem[flat_struct.flat_img]))
            /\ img' = NewRef
            /\ pc' = "flat_cast"
            /\ ret' = ret
    /\ UNCHANGED <<fn, args, fcast, deinterlaced_image, img_odd_d, img_even,
                   new_arr, flat_struct>>

\* img = img.astype(input_type); return img
Apply_cast ==
    /\ pc = "flat_cast"
    /\ mem' = Alloc(AsTypeFromFloat(mem[img], img_type))
    /\ img' = NewRef
    /\ ret' = NewRef
    /\ pc' = "done"
    /\ UNCHANGED <<fn, args, fcast, deinterlaced_image, img_odd_d, img_even,
                   new_arr, flat_struct, img_type>>

----------------------------------------------------------------------------
(* The flat-field specification: the caller holds a target image and the   *)
(* decoded reference frame, builds the flat with loadFlat and applies it   *)
(* to the target.                                                          *)

FlatSamples == {0, 3, 4}

FlatFrames ==
    {[dtype |-> "uint8", rows |-> rs] :
        rs \in UNION {[1..s[1] -> [1..s[2] -> FlatSamples]] : s \in Shapes}}

InitFlat ==
    /\ \E a \in SmallImages({"uint8", "int8"}) : \E f \in FlatFrames :
          mem = <<a, f>>
    /\ fn = "applyFlat"
    /\ args = NoArgs
    /\ pc = "load_flat"
    /\ fcast = "wrap"
    /\ img = 1
    /\ deinterlaced_image = 0
    /\ img_odd_d = 0
    /\ img_even = 0
    /\ new_arr = 0
    /\ flat_struct = NoFlat
    /\ img_type = "None"
    /\ ret = 0

NextFlat ==
    \/ Load_flat
    \/ Apply_entry
    \/ Apply_cast

SpecFlat == InitFlat /\ [][NextFlat]_vars

----------------------------------------------------------------------------
(* Every function of the module, one call per behaviour *)

Init == InitDeint \/ InitTone \/ InitFlat

Next == NextDeint \/ NextTone \/ NextFlat

Spec == Init /\ [][Next]_vars

(* The functions with a no-correction fallback *)

InitToneFlat == InitTone \/ InitFlat

NextToneFlat == NextTone \/ NextFlat

SpecToneFlat == InitToneFlat /\ [][NextToneFlat]_vars

----------------------------------------------------------------------------
(* Properties of the deinterlacing functions *)

Rows(ref) == mem[ref].rows
In == Caller.rows
H == Len(In)

\* the reference of C9: every source row read from the unmodified input
DupReference(rows) ==
    [m \in 1..Len(rows) |-> IF m % 2 = 1 THEN rows[m] ELSE rows[m - 1]]

OddReference(rows) ==
    [m \in 1..Len(rows) |->
        IF m < Len(rows) THEN DupReference(rows)[m + 1]
        ELSE ZeroRow(Len(rows[m]))]

\* C9: the in-place steps of deinterlaceOdd give what a reference reading
\* every source row from the unmodified input gives: after the duplication
\* the buffer is D (row k for even k, row k-1 for odd k), after the shift
\* row r is D[r+1] for r < H-1, and the returned image has that and a last
\* row of zeros.
C9_OddMatchesReference ==
    /\ pc = "odd_shift" => Rows(deinterlaced_image) = DupReference(In)
    /\ pc = "odd_zero" =>
          \A m \in 1..(H - 1) :
              Rows(deinterlaced_image)[m] = DupReference(In)[m + 1]
    /\ pc = "odd_ret" => Rows(deinterlaced_image) = OddReference(In)
    /\ (pc = "done" /\ fn = "deinterlaceOdd") => Rows(ret) = OddReference(In)
    /\ img_odd_d # 0 => Rows(img_odd_d) = OddReference(In)

\* deinterlaceOdd has returned for an image of four rows that are not all equal
C9_Witness ==
    /\ pc = "done"
    /\ fn = "deinterlaceOdd"
    /\ H = 4
    /\ In[1] # In[3]
    /\ In[3] # ZeroRow(Len(In[3]))
    /\ Rows(ret)[2] = In[3]

\* C6: deinterlaceEven returns an image of the same shape in which every
\* even row (source numbering) other than the last row holds the input's
\* next row, and every other row is the input's row.
C6_EvenRows ==
    (pc = "done" /\ fn = "deinterlaceEven") =>
        /\ Shape(mem[ret]) = Shape(Caller)
        /\ \A m \in 1..H :
              Rows(ret)[m] = IF m % 2 = 1 /\ m < H THEN In[m + 1] ELSE In[m]

\* deinterlaceEven has returned for an image of three rows whose last (even)
\* row differs from the row before it, and whose first two rows differ
C6_Witness ==
    /\ pc = "done"
    /\ fn = "deinterlaceEven"
    /\ H = 3
    /\ In[1] # In[2]
    /\ In[3] # In[2]
    /\ Rows(ret)[1] = In[2]
    /\ Rows(ret)[3] = In[3]

\* the state part of C10
BlendIsVerticalMax ==
    (pc = "done" /\ fn = "deinterlaceBlend" /\ Caller.dtype = "uint8") =>
        /\ Shape(mem[ret]) = Shape(Caller)
        /\ \A m \in 1..(H - 1) : \A c \in 1..Len(In[m]) :
              Rows(ret)[m][c] = Max(In[m][c], In[m + 1][c])
        /\ Rows(ret)[H] = In[H]

\* C10: for an 8-bit unsigned image deinterlaceBlend returns the two-row
\* vertical maximum (row r is the maximum of rows r and r+1, the last row is
\* the input's last row), and no step of the call changes the caller's image.
C10_BlendVerticalMax ==
    /\ []BlendIsVerticalMax
    /\ [][Head(mem') = Head(mem)]_vars

\* deinterlaceBlend has returned for an 8-bit image of four rows in which a
\* row is brighter than the next and another darker than the next
C10_Witness ==
    /\ pc = "done"
    /\ fn = "deinterlaceBlend"
    /\ Caller.dtype = "uint8"
    /\ H = 4
    /\ In[1][1] > In[2][1]
    /\ In[2][1] < In[3][1]
    /\ In[4][1] > 0
    /\ Rows(ret)[2][1] = In[3][1]

\* C1: at every position deinterlaceBlend's result is the greater of
\* deinterlaceOdd's and deinterlaceEven's results, for 8-bit and for wider
\* unsigned images.
C1_BlendIsMaxOfFields ==
    (pc = "done" /\ fn = "deinterlaceBlend") =>
        \A m \in 1..H : \A c \in 1..Len(In[m]) :
            Rows(ret)[m][c] = Max(Rows(img_odd_d)[m][c], Rows(img_even)[m][c])

----------------------------------------------------------------------------
(* Properties of the flat field *)

Reference == Flatten(flat_file)
FlatImg == mem[flat_struct.flat_img]
Loaded == pc \in {"apply_flat", "flat_cast", "done"} /\ fn = "applyFlat"

\* the k-th smallest sample of the reference frame, by counting
Ranked(k) ==
    CHOOSE v \in {Reference[i] : i \in 1..Len(Reference)} :
        /\ Cardinality({i \in 1..Len(Reference) : Reference[i] < v}) < k
        /\ Cardinality({i \in 1..Len(Reference) : Reference[i] <= v}) >= k

\* C2: the FlatField built by loadFlat has flat_avg the median of the
\* reference frame; every element of the reference below flat_avg/2 is
\* replaced by flat_avg and every other element is kept; so no element of
\* flat_img is below flat_avg/2.
C2_FlatFieldBuilt ==
    Loaded =>
        LET n == Len(Reference)
            avg == flat_struct.flat_avg
        IN  /\ IsFinite(avg)
            /\ 2 * avg[1] = (Ranked((n + 1) \div 2) + Ranked(n \div 2 + 1)) * avg[2]
            /\ Shape(FlatImg) = Shape(flat_file)
            /\ \A r \in 1..Height(flat_file) : \A c \in 1..Width(flat_file) :
                  /\ FlatImg.rows[r][c] =
                        IF 2 * flat_file.rows[r][c] * avg[2] < avg[1]
                        THEN avg
                        ELSE <<flat_file.rows[r][c], 1>>
                  /\ ~QLess(FlatImg.rows[r][c], Half(avg))

\* a flat was built from a frame of an even count of samples whose median is
\* not a whole number, with one element replaced and one kept
C2_Witness ==
    /\ Loaded
    /\ flat_struct.flat_avg[2] = 2
    /\ flat_struct.flat_avg[1] % 2 = 1
    /\ \E r \in 1..Height(flat_file) : \E c \in 1..Width(flat_file) :
          FlatImg.rows[r][c] = flat_struct.flat_avg
    /\ \E r \in 1..Height(flat_file) : \E c \in 1..Width(flat_file) :
          FlatImg.rows[r][c] = <<flat_file.rows[r][c], 1>>

\* C3: the FlatField built by loadFlat from any frame of non-negative
\* samples, a frame of median 0 included, holds no zero element, so that
\* applyFlat never divides by zero.
C3_NoZeroDivisor ==
    Loaded =>
        \A r \in 1..Height(FlatImg) : \A c \in 1..Width(FlatImg) :
            FlatImg.rows[r][c][1] # 0

\* C5: with a flat_img whose every element equals flat_avg, whatever value
\* flat_avg has, applyFlat returns an image equal to the target, sample for
\* sample and with the same storage type.
C5_UniformFlatIsIdentity ==
    (/\ pc = "done"
     /\ fn = "applyFlat"
     /\ Shape(FlatImg) = Shape(Caller)
     /\ \A r \in 1..Height(FlatImg) : \A c \in 1..Width(FlatImg) :
           FlatImg.rows[r][c] = flat_struct.flat_avg)
        => mem[ret] = Caller

----------------------------------------------------------------------------
(* Properties of the casts and of the fallbacks *)

Samples2D(a) == {a.rows[r][c] : r \in 1..Height(a), c \in 1..Width(a)}

\* C4: in every transform that casts its result to an integer storage type
\* the value handed to the cast lies in the range of the type it is cast to:
\* blendLighten (cast to uint8), adjustLevels (cast to uint8),
\* applyBrightnessAndContrast and applyFlat (cast to the input's type).
C4_ClippedBeforeCast ==
    /\ pc = "lighten_cast" =>
          \A v \in Samples2D(mem[new_arr]) : InRange(v, "uint8")
    /\ pc = "levels_cast" =>
          \A p \in Samples2D(mem[img]) : InRange(Trunc(p), "uint8")
    /\ pc = "bc_cast" =>
          \A p \in Samples2D(mem[img]) : InRange(Trunc(p), img_type)
    /\ pc = "flat_cast" =>
          \A p \in Samples2D(mem[img]) : IsFinite(p) => InRange(Trunc(p), img_type)

\* the state part of C7
FallbackReturnsInput ==
    /\ (fn = "adjustLevels" /\ pc # "levels_entry"
            /\ args.minv = None /\ args.gamma = None /\ args.maxv = None)
          => (pc = "done" /\ ret = img /\ mem = <<Caller>>)
    /\ (fn = "applyFlat" /\ pc \notin {"load_flat", "apply_flat"}
            /\ Shape(Caller) # Shape(FlatImg))
          => (pc = "done" /\ ret = img /\ mem[ret] = Caller)

\* C7: applyFlat returns the target itself whenever its shape differs from
\* flat_img's, and adjustLevels returns its input itself whenever minv,
\* gamma and maxv are all None, for any nbits; no error is raised and no
\* step changes the caller's image.
C7_FallbacksReturnInput ==
    /\ []FallbackReturnsInput
    /\ [][Caller' = Caller]_vars

\* applyFlat has returned for a target whose shape differs from the flat's,
\* where the flat is not uniform
C7_Witness ==
    /\ fn = "applyFlat"
    /\ pc = "done"
    /\ Shape(Caller) # Shape(FlatImg)
    /\ Height(Caller) * Width(Caller) = Height(FlatImg) * Width(FlatImg)
    /\ \E p \in Samples2D(FlatImg) : p # flat_struct.flat_avg
    /\ ret = img

\* adjustLevels has returned through its sentinel test with nbits = 10
C7_WitnessLevels ==
    /\ fn = "adjustLevels"
    /\ pc = "done"
    /\ args.minv = None /\ args.gamma = None /\ args.maxv = None
    /\ args.nbits = Some(10)
    /\ ret = img

\* C8: for an image whose samples lie in 0..255,
\* applyBrightnessAndContrast(img, 0, 0) has contrast factor 1 and returns
\* an image equal to img sample for sample, with the original storage type.
C8_NeutralIsIdentity ==
    (/\ fn = "applyBrightnessAndContrast"
     /\ pc = "done"
     /\ args.brightness = Some(0)
     /\ args.contrast = Some(0)
     /\ \A v \in Samples2D(Caller) : 0 <= v /\ v <= 255)
        => /\ ContrastFactor(Val(args.contrast))[1]
                 = ContrastFactor(Val(args.contrast))[2]
           /\ mem[ret] = Caller

\* applyBrightnessAndContrast(img, 0, 0) has returned for an image holding
\* both a dark and a bright sample
C8_Witness ==
    /\ fn = "applyBrightnessAndContrast"
    /\ pc = "done"
    /\ args.brightness = Some(0)
    /\ args.contrast = Some(0)
    /\ {0, 200} \subseteq Samples2D(Caller)
    /\ mem[ret].rows = In

====
